---- MODULE Spec2Model ----
(***************************************************************************)
(* Model of src/fetch_hackathons.py: the discovery request of main, the    *)
(* retrying page fetcher fetch_page_with_retry, the accumulation loop of   *)
(* fetch_all_hackathons, the CSV write of main, and the pure function      *)
(* flatten_hackathon.                                                      *)
(*                                                                         *)
(* Python dicts are functions whose DOMAIN is the set of keys present.     *)
(* Strings that the code edits (prize_amount, thumbnail_url, themes) are   *)
(* sequences of tokens; every other scalar is an atom.                     *)
(***************************************************************************)
EXTENDS Integers, Sequences, FiniteSets, TLC

\* ------------------------------------------------------------- bounds
\* Largest meta.total_count and meta.per_page the modelled API reports.
MaxTotalCount == 3
MaxPerPage == 2
\* Number of pages of the API of the limiter scenario (more than max_concurrent + 1).
LimiterPages == 12
\* Largest number of top-level keys missing from (resp. present in) a raw record
\* handed to flatten_hackathon in SpecFlatten.
MaxMissing == 1
MaxPresent == 1

\* ------------------------------------------------------------- program constants
max_retries == 3
max_concurrent == 10

\* Python's None, as the value of a scalar field.
None == "None"

\* ------------------------------------------------------------- dicts and strings
\* dict.get(key, default)
Get(d, k, default) == IF k \in DOMAIN d THEN d[k] ELSE default

\* The dict d without the keys outside S.
Restrict(d, S) == [k \in (S \cap DOMAIN d) |-> d[k]]

\* The empty dict {}.
EmptyDict == [k \in {} |-> None]

\* str.replace(old, ''): every occurrence of the token old is removed.
RECURSIVE Replace(_, _)
Replace(s, old) ==
    IF s = <<>> THEN <<>>
    ELSE IF Head(s) = old THEN Replace(Tail(s), old)
    ELSE <<Head(s)>> \o Replace(Tail(s), old)

\* ', '.join(names)
RECURSIVE Join(_)
Join(names) ==
    IF names = <<>> THEN <<>>
    ELSE IF Len(names) = 1 THEN <<names[1]>>
    ELSE <<names[1], ", ">> \o Join(Tail(names))

\* ------------------------------------------------------------- flatten_hackathon
\* The 18 keys flatten_hackathon reads from a raw record.
RawKeys ==
    {"id", "title", "url", "organization_name", "displayed_location", "open_state",
     "submission_period_dates", "time_left_to_submission", "prize_amount",
     "prizes_counts", "registrations_count", "themes", "featured",
     "winners_announced", "invite_only", "managed_by_devpost_badge",
     "thumbnail_url", "submission_gallery_url"}

\* The 19 keys of a flat record.
FlatKeys ==
    {"id", "title", "url", "organization_name", "location", "open_state",
     "submission_period_dates", "time_left_to_submission", "prize_amount",
     "cash_prizes_count", "other_prizes_count", "registrations_count", "themes",
     "featured", "winners_announced", "invite_only", "managed_by_devpost",
     "thumbnail_url", "submission_gallery_url"}

\* What a call of flatten_hackathon that raises KeyError yields.
KeyError == [exc |-> "KeyError"]

\* Does the value stand for a raised exception?
Raised(r) == DOMAIN r = {"exc"}

\* theme['name'] for theme in hackathon.get('themes', []): the subscript raises
\* KeyError on a theme without 'name'.
ThemesRaise(hackathon) ==
    LET ts == Get(hackathon, "themes", <<>>)
    IN  \E i \in DOMAIN ts : "name" \notin DOMAIN ts[i]

flatten_hackathon(hackathon) ==
    IF ThemesRaise(hackathon) THEN KeyError
    ELSE
    LET ts == Get(hackathon, "themes", <<>>)
        themes == Join([i \in DOMAIN ts |-> ts[i]["name"]])
        thumb == Get(hackathon, "thumbnail_url", <<>>)
    IN  [id |-> Get(hackathon, "id", None),
         title |-> Get(hackathon, "title", None),
         url |-> Get(hackathon, "url", None),
         organization_name |-> Get(hackathon, "organization_name", None),
         location |-> Get(Get(hackathon, "displayed_location", EmptyDict), "location", None),
         open_state |-> Get(hackathon, "open_state", None),
         submission_period_dates |-> Get(hackathon, "submission_period_dates", None),
         time_left_to_submission |-> Get(hackathon, "time_left_to_submission", None),
         prize_amount |-> Replace(Replace(Get(hackathon, "prize_amount", <<>>),
                                          "<span data-currency-value>"), "</span>"),
         cash_prizes_count |-> Get(Get(hackathon, "prizes_counts", EmptyDict), "cash", 0),
         other_prizes_count |-> Get(Get(hackathon, "prizes_counts", EmptyDict), "other", 0),
         registrations_count |-> Get(hackathon, "registrations_count", None),
         themes |-> themes,
         featured |-> Get(hackathon, "featured", None),
         winners_announced |-> Get(hackathon, "winners_announced", None),
         invite_only |-> Get(hackathon, "invite_only", None),
         managed_by_devpost |-> Get(hackathon, "managed_by_devpost_badge", None),
         thumbnail_url |-> IF thumb # <<>> THEN <<"https:">> \o thumb ELSE <<>>,
         submission_gallery_url |-> Get(hackathon, "submission_gallery_url", None)]

\* ------------------------------------------------------------- raw records
\* A raw record with every field present, as the API serves it.
FullRecord ==
    [id |-> "27281", title |-> "Hack", url |-> "https://hack.devpost.com/",
     organization_name |-> "Org",
     displayed_location |-> [icon |-> "globe", location |-> "Online"],
     open_state |-> "open", submission_period_dates |-> "Nov 01 - 30, 2026",
     time_left_to_submission |-> "26 days left",
     prize_amount |-> <<"$", "<span data-currency-value>", "1,000", "</span>">>,
     prizes_counts |-> [cash |-> 2, other |-> 1],
     registrations_count |-> "120",
     themes |-> <<[id |-> "1", name |-> "AI"], [id |-> "2", name |-> "Web"]>>,
     featured |-> "false", winners_announced |-> "false", invite_only |-> "false",
     managed_by_devpost_badge |-> "false",
     thumbnail_url |-> <<"//d112y698adiu2z.cloudfront.net/photos/1.png">>,
     submission_gallery_url |-> "https://hack.devpost.com/project-gallery"]

\* The raw record {}: every field missing.
BareRecord == Restrict(FullRecord, {})

\* A raw record one of whose themes has no 'name'.
NamelessThemeRecord == [FullRecord EXCEPT !.themes = <<[id |-> "1", name |-> "AI"], [id |-> "2"]>>]


\* ------------------------------------------------------------- the remote API
\* A decoded JSON body. kind "null" is a falsy body (null or {}), "nokey" a non-empty
\* object without 'hackathons', "page" an object with 'hackathons'; kind "None" is
\* Python's None, the absent outcome of fetch_page_with_retry.
Payload(kind, tc, pp, hs) ==
    [kind |-> kind, meta |-> [total_count |-> tc, per_page |-> pp], hackathons |-> hs]

NonePayload == Payload("None", 0, 0, <<>>)

\* bool(data)
Truthy(data) == data.kind \notin {"None", "null"}

\* 'hackathons' in data
HasHackathons(data) == data.kind = "page"

\* The least n with n * d >= c: ceil(c / d), defined without the code's formula.
Ceil(c, d) == CHOOSE n \in 0..c : n * d >= c /\ \A m \in 0..c : m * d >= c => n <= m

\* The record lists a page of the API may hold.
RecordLists == {<<>>, <<FullRecord>>, <<FullRecord, BareRecord>>, <<NamelessThemeRecord>>}

\* The bodies the API may serve for page 1 and for a later page.
FirstBodies(tc, pp) ==
    {Payload("null", tc, pp, <<>>)} \cup {Payload("page", tc, pp, hs) : hs \in RecordLists}

RestBodies(tc, pp) ==
    {Payload("null", tc, pp, <<>>), Payload("nokey", tc, pp, <<>>)}
        \cup {Payload("page", tc, pp, hs) : hs \in RecordLists}

\* An API of n pages: page 1 answers first, page p > 1 answers rest[p].
MkApi(n, first, rest) == [p \in 1..n |-> IF p = 1 THEN first ELSE rest[p]]

LastPage(tc, pp) == IF Ceil(tc, pp) > 1 THEN Ceil(tc, pp) ELSE 1

\* Every API reporting total_count <= MaxTotalCount and per_page in 1..MaxPerPage.
ApiSet ==
    UNION { UNION { { MkApi(LastPage(tc, pp), first, rest) :
                        first \in FirstBodies(tc, pp),
                        rest \in [2..LastPage(tc, pp) -> RestBodies(tc, pp)] } :
                    pp \in 1..MaxPerPage } :
            tc \in 0..MaxTotalCount }

\* The APIs of the limiter scenario: LimiterPages pages of one record each, the later
\* pages all answering an object without 'hackathons'.
LimiterApiSet ==
    { MkApi(LimiterPages, first, [p \in 2..LimiterPages |-> Payload("nokey", LimiterPages, 1, <<>>)]) :
        first \in FirstBodies(LimiterPages, 1) }

\* ------------------------------------------------------------- state
VARIABLES
    api,                \* the remote API: page number -> decoded body
    pc,                 \* where main / fetch_all_hackathons stands
    exit_status,        \* the process's exit status, NoExit while it runs
    exception,          \* the uncaught exception that ended the run, "none" if none
    first_page,         \* main: first_page
    total_pages,        \* main: total_pages
    all_hackathons,     \* fetch_all_hackathons: all_hackathons
    origin,             \* the page each row of all_hackathons came from
    sem_value,          \* the counter of asyncio.Semaphore(max_concurrent)
    tasks,              \* fetch_all_hackathons: the page numbers of tasks, in list order
    cur,                \* index in tasks of the loop of line 105
    data,               \* fetch_all_hackathons: data
    completed,          \* fetch_all_hackathons: completed
    failed_pages,       \* fetch_all_hackathons: failed_pages
    coro,               \* page -> state of its fetch_page_with_retry coroutine
    attempt,            \* page -> the loop variable attempt of its coroutine
    nreq,               \* page -> requests its running coroutine has sent
    last,               \* page -> outcome of the latest request of its running coroutine
    delay,              \* page -> seconds of the asyncio.sleep it is in, 0 if none
    result,             \* page -> what its coroutine returned
    requested,          \* pages a request of fetch_page_with_retry was sent for
    discovery_requests, \* requests main sent for page 1
    stderr,             \* the error stream: number of lines and the latest line
    csv_written,        \* has main opened and written devpost_hackathons.csv
    csv_header,         \* the fieldnames written
    csv_rows,           \* the rows written
    fl_in, fl_out, fl_pc \* flatten_hackathon applied to one raw record

mainvars == <<pc, exit_status, exception, first_page, total_pages>>
accvars == <<all_hackathons, origin, data, completed, failed_pages>>
corovars == <<coro, attempt, nreq, last, delay, result, sem_value>>
iovars == <<requested, discovery_requests, stderr, csv_written, csv_header, csv_rows>>
flvars == <<fl_in, fl_out, fl_pc>>
vars == <<api, mainvars, accvars, tasks, cur, corovars, iovars, flvars>>

\* The exit status of a process that has not exited.
NoExit == -1

NoPages == [p \in {} |-> 0]

InitProgram ==
    /\ pc = "start" /\ exit_status = NoExit /\ exception = "none"
    /\ first_page = NonePayload /\ total_pages = 0
    /\ all_hackathons = <<>> /\ origin = <<>> /\ data = NonePayload
    /\ completed = 0 /\ failed_pages = <<>>
    /\ sem_value = 0 /\ tasks = <<>> /\ cur = 0
    /\ coro = NoPages /\ attempt = NoPages /\ nreq = NoPages /\ last = NoPages
    /\ delay = NoPages /\ result = NoPages
    /\ requested = {} /\ discovery_requests = 0
    /\ stderr = [count |-> 0, line |-> <<"none", 0>>]
    /\ csv_written = FALSE /\ csv_header = {} /\ csv_rows = <<>>

InitFlattenIdle == fl_in = BareRecord /\ fl_out = KeyError /\ fl_pc = "idle"

Init == api \in ApiSet /\ InitProgram /\ InitFlattenIdle

InitLimiter == api \in LimiterApiSet /\ InitProgram /\ InitFlattenIdle

\* ------------------------------------------------------------- main: discovery
\* session.get(url, headers=headers) of line 137 is sent.
SendDiscovery ==
    /\ pc = "start"
    /\ pc' = "discovery"
    /\ discovery_requests' = discovery_requests + 1
    /\ UNCHANGED <<api, exit_status, exception, first_page, total_pages, accvars, tasks,
                   cur, corovars, requested, stderr, csv_written, csv_header, csv_rows,
                   flvars>>

\* A check that lets every decoded body through.
DiscoveryFailed_never(fp) == FALSE

\* if not first_page (line 140)
DiscoveryFailed(fp) == ~Truthy(fp)

\* A page count that rounds down.
TotalPages_floor(total_count, per_page) == total_count \div per_page

\* (total_count + per_page - 1) // per_page (line 146)
TotalPages(total_count, per_page) == (total_count + per_page - 1) \div per_page

\* The request of line 137 ends: with an exception (transport error, undecodable body),
\* which nothing catches, or with the decoded body; a falsy body ends in sys.exit(1).
DiscoveryResponse ==
    /\ pc = "discovery"
    /\ \E outcome \in {"error", "json"} :
        IF outcome = "error"
        THEN /\ pc' = "crashed" /\ exception' = "discovery" /\ exit_status' = 1
             /\ UNCHANGED <<first_page, total_pages>>
        ELSE /\ first_page' = api[1]
             /\ exception' = exception
             /\ IF DiscoveryFailed(api[1])
                THEN pc' = "exited" /\ exit_status' = 1 /\ total_pages' = total_pages
                ELSE /\ pc' = "flatten_first" /\ exit_status' = exit_status
                     /\ total_pages' = TotalPages(api[1].meta.total_count,
                                                  api[1].meta.per_page)
    /\ UNCHANGED <<api, accvars, tasks, cur, corovars, iovars, flvars>>

\* ------------------------------------------------------------- fetch_all_hackathons: set-up
\* for hackathon in records: rows.append(flatten_hackathon(hackathon)), stopping at the
\* first call that raises.
RECURSIVE AppendFlat(_, _)
AppendFlat(rows, records) ==
    IF records = <<>> THEN [rows |-> rows, raised |-> FALSE]
    ELSE LET flat == flatten_hackathon(Head(records))
         IN  IF Raised(flat) THEN [rows |-> rows, raised |-> TRUE]
             ELSE AppendFlat(Append(rows, flat), Tail(records))

\* origin, extended by the rows that page contributed.
Extend(org, rows, page) == org \o [i \in 1..(Len(rows) - Len(org)) |-> page]

\* Lines 82-86: the records of page 1 are flattened into all_hackathons.
FlattenFirst ==
    /\ pc = "flatten_first"
    /\ LET fold == AppendFlat(all_hackathons, first_page.hackathons)
       IN  /\ all_hackathons' = fold.rows
           /\ origin' = Extend(origin, fold.rows, 1)
           /\ pc' = IF fold.raised THEN "crashed" ELSE "create_tasks"
           /\ exception' = IF fold.raised THEN "KeyError" ELSE exception
           /\ exit_status' = IF fold.raised THEN 1 ELSE exit_status
    /\ UNCHANGED <<api, first_page, total_pages, data, completed, failed_pages, tasks, cur,
                   corovars, iovars, flvars>>

\* A task list that enumerates the pages from the last one down.
TaskPages_descending(n) == IF n < 2 THEN <<>> ELSE [i \in 1..(n - 1) |-> n + 1 - i]

\* range(2, total_pages + 1), in list order (line 95)
TaskPages(n) == IF n < 2 THEN <<>> ELSE [i \in 1..(n - 1) |-> i + 1]

\* The pages of a task list.
PagesOf(ts) == {ts[i] : i \in DOMAIN ts}

\* Lines 89-103: the semaphore, one coroutine object per page (none of them started:
\* fetch_page_with_retry(...) only builds the object), completed and failed_pages.
CreateTasks ==
    /\ pc = "create_tasks"
    /\ sem_value' = max_concurrent
    /\ tasks' = TaskPages(total_pages)
    /\ cur' = 1
    /\ coro' = [p \in PagesOf(tasks') |-> "created"]
    /\ attempt' = [p \in PagesOf(tasks') |-> 0]
    /\ nreq' = [p \in PagesOf(tasks') |-> 0]
    /\ last' = [p \in PagesOf(tasks') |-> "none"]
    /\ delay' = [p \in PagesOf(tasks') |-> 0]
    /\ result' = [p \in PagesOf(tasks') |-> NonePayload]
    /\ completed' = 0
    /\ failed_pages' = <<>>
    /\ pc' = IF tasks' = <<>> THEN "report" ELSE "await"
    /\ UNCHANGED <<api, exit_status, exception, first_page, total_pages, all_hackathons,
                   origin, data, iovars, flvars>>

\* ------------------------------------------------------------- fetch_page_with_retry
\* The coroutine of page p runs only while line 106 awaits it: a coroutine object that
\* is neither awaited nor wrapped in a task never starts.
Running(p) == pc = "await" /\ cur \in DOMAIN tasks /\ tasks[cur] = p

\* A coroutine that enters the limiter whether awaited or not, free slot or not.
MayEnter_unlimited(p) == TRUE

\* async with semaphore (line 20), reached once the coroutine runs.
MayEnter(p) == Running(p) /\ sem_value > 0

\* The outcomes of one request: status 200 with a decodable body; status 404; a timeout;
\* an exception other than a timeout (a transport error, a body that fails to decode);
\* and the statuses of the else branch of line 33: 400 and above ("http_error"), 2xx
\* other than 200 ("status_2xx"), below 400 and not 2xx ("status_3xx").
Outcomes ==
    {"ok200", "http404", "timeout", "error", "http_error", "status_2xx", "status_3xx"}

\* The outcomes that reach response.raise_for_status() (line 34).
OtherStatuses == {"http_error", "status_2xx", "status_3xx"}

\* response.raise_for_status() raises for a status of 400 and above, and for no other.
RaisesForStatus(outcome) == outcome = "http_error"

\* The line printed to sys.stderr on the last attempt (lines 40, 48).
LogLine(outcome, p) ==
    <<IF outcome = "timeout" THEN "Timeout fetching page" ELSE "Error fetching page", p>>

\* attempt < max_retries - 1 (lines 27, 36, 44)
Retryable(a) == a < max_retries - 1

\* A sleep of one second per attempt in every branch.
Backoff_one(outcome, a) == 1 * (a + 1)

\* The sleep before the next attempt (lines 29, 37, 45).
Backoff(outcome, a) == IF outcome = "http404" THEN 1 * (a + 1) ELSE 2 * (a + 1)

\* A loop whose index starts again after a 404.
NextAttempt_reset(a, outcome) == IF outcome = "http404" THEN 0 ELSE a + 1

\* The next value of attempt in for attempt in range(max_retries) (line 21).
NextAttempt(a, outcome) == a + 1

Enter(p) ==
    /\ coro[p] = "created"
    /\ MayEnter(p)
    /\ coro' = [coro EXCEPT ![p] = "entered"]
    /\ sem_value' = sem_value - 1
    /\ UNCHANGED <<api, mainvars, accvars, tasks, cur, attempt, nreq, last, delay, result,
                   iovars, flvars>>

\* session.get(url, headers=headers, timeout=30) of line 23 is sent.
SendRequest(p) ==
    /\ Running(p)
    /\ coro[p] = "entered"
    /\ attempt[p] < max_retries
    /\ coro' = [coro EXCEPT ![p] = "request"]
    /\ nreq' = [nreq EXCEPT ![p] = @ + 1]
    /\ requested' = requested \cup {p}
    /\ UNCHANGED <<api, mainvars, accvars, tasks, cur, attempt, last, delay, result,
                   sem_value, discovery_requests, stderr, csv_written, csv_header,
                   csv_rows, flvars>>

\* Lines 24-50: the request of the current attempt ends.
Response(p) ==
    /\ Running(p)
    /\ coro[p] = "request"
    /\ \E outcome \in Outcomes :
        LET a == attempt[p]
            generic == outcome = "error"
                           \/ (outcome \in OtherStatuses /\ RaisesForStatus(outcome))
            falls == outcome \in OtherStatuses /\ ~RaisesForStatus(outcome)
            failure == outcome \in {"http404", "timeout"} \/ generic
            returns == outcome = "ok200" \/ (failure /\ ~Retryable(a))
            sleeps == failure /\ Retryable(a)
            logs == (outcome = "timeout" \/ generic) /\ ~Retryable(a)
        IN  /\ last' = [last EXCEPT ![p] = outcome]
            /\ coro' = [coro EXCEPT ![p] = IF returns THEN "returned"
                                           ELSE IF sleeps THEN "sleep" ELSE "entered"]
            /\ result' = [result EXCEPT ![p] = IF outcome = "ok200" THEN api[p]
                                               ELSE NonePayload]
            /\ sem_value' = IF returns THEN sem_value + 1 ELSE sem_value
            /\ delay' = [delay EXCEPT ![p] = IF sleeps THEN Backoff(outcome, a) ELSE 0]
            /\ attempt' = [attempt EXCEPT ![p] = IF falls THEN NextAttempt(a, outcome)
                                                 ELSE a]
            /\ stderr' = IF logs THEN [count |-> stderr.count + 1,
                                       line |-> LogLine(outcome, p)]
                         ELSE stderr
    /\ UNCHANGED <<api, mainvars, accvars, tasks, cur, nreq, requested,
                   discovery_requests, csv_written, csv_header, csv_rows, flvars>>

\* asyncio.sleep returns and continue takes the loop to its next attempt.
Wake(p) ==
    /\ Running(p)
    /\ coro[p] = "sleep"
    /\ coro' = [coro EXCEPT ![p] = "entered"]
    /\ attempt' = [attempt EXCEPT ![p] = NextAttempt(@, last[p])]
    /\ delay' = [delay EXCEPT ![p] = 0]
    /\ UNCHANGED <<api, mainvars, accvars, tasks, cur, nreq, last, result, sem_value,
                   iovars, flvars>>

\* The loop of line 21 is exhausted without a return: return None (line 52).
FallThrough(p) ==
    /\ Running(p)
    /\ coro[p] = "entered"
    /\ attempt[p] >= max_retries
    /\ coro' = [coro EXCEPT ![p] = "returned"]
    /\ result' = [result EXCEPT ![p] = NonePayload]
    /\ sem_value' = sem_value + 1
    /\ UNCHANGED <<api, mainvars, accvars, tasks, cur, attempt, nreq, last, delay,
                   iovars, flvars>>

\* ------------------------------------------------------------- fetch_all_hackathons: the loop
\* The page the loop of line 105 stands at.
PageNum == tasks[cur]

\* data = await coro; completed += 1 (lines 106-107): the awaited coroutine has
\* returned and its frame is gone.
Resume ==
    /\ pc = "await"
    /\ coro[PageNum] = "returned"
    /\ data' = result[PageNum]
    /\ completed' = completed + 1
    /\ coro' = [coro EXCEPT ![PageNum] = "finished"]
    /\ attempt' = [attempt EXCEPT ![PageNum] = 0]
    /\ nreq' = [nreq EXCEPT ![PageNum] = 0]
    /\ last' = [last EXCEPT ![PageNum] = "none"]
    /\ result' = [result EXCEPT ![PageNum] = NonePayload]
    /\ pc' = "accumulate"
    /\ UNCHANGED <<api, exit_status, exception, first_page, total_pages, all_hackathons,
                   origin, failed_pages, tasks, cur, delay, sem_value, iovars, flvars>>

\* A test that takes every decoded body for page data.
IsPageData_truthy(d) == Truthy(d)

\* data and 'hackathons' in data (line 112)
IsPageData(d) == Truthy(d) /\ HasHackathons(d)

\* Lines 112-116, then the next iteration of the loop of line 105 or its end.
Accumulate ==
    /\ pc = "accumulate"
    /\ LET fold == IF IsPageData(data) THEN AppendFlat(all_hackathons, data.hackathons)
                   ELSE [rows |-> all_hackathons, raised |-> FALSE]
       IN  /\ all_hackathons' = fold.rows
           /\ origin' = Extend(origin, fold.rows, PageNum)
           /\ failed_pages' = IF IsPageData(data) THEN failed_pages
                              ELSE Append(failed_pages, PageNum)
           /\ exception' = IF fold.raised THEN "KeyError" ELSE exception
           /\ exit_status' = IF fold.raised THEN 1 ELSE exit_status
           /\ cur' = IF fold.raised THEN cur ELSE cur + 1
           /\ pc' = IF fold.raised THEN "crashed"
                    ELSE IF cur = Len(tasks) THEN "report" ELSE "await"
    /\ UNCHANGED <<api, first_page, total_pages, data, completed, tasks, corovars, iovars,
                   flvars>>

\* Lines 118-122 and 153: the session closes and all_hackathons is returned to main.
ReturnAll ==
    /\ pc = "report"
    /\ pc' = "write"
    /\ UNCHANGED <<api, exit_status, exception, first_page, total_pages, accvars, tasks,
                   cur, corovars, iovars, flvars>>

\* ------------------------------------------------------------- main: the CSV file
\* Lines 157-171: the file is written only if all_hackathons is not empty; main returns.
WriteCsv ==
    /\ pc = "write"
    /\ IF all_hackathons # <<>>
       THEN /\ csv_written' = TRUE
            /\ csv_header' = DOMAIN all_hackathons[1]
            /\ csv_rows' = all_hackathons
       ELSE UNCHANGED <<csv_written, csv_header, csv_rows>>
    /\ pc' = "done"
    /\ exit_status' = 0
    /\ UNCHANGED <<api, exception, first_page, total_pages, accvars, tasks, cur, corovars,
                   requested, discovery_requests, stderr, flvars>>

\* ------------------------------------------------------------- specifications
Next ==
    \/ SendDiscovery
    \/ DiscoveryResponse
    \/ FlattenFirst
    \/ CreateTasks
    \/ \E p \in DOMAIN coro : Enter(p)
    \/ \E p \in DOMAIN coro : SendRequest(p)
    \/ \E p \in DOMAIN coro : Response(p)
    \/ \E p \in DOMAIN coro : Wake(p)
    \/ \E p \in DOMAIN coro : FallThrough(p)
    \/ Resume
    \/ Accumulate
    \/ ReturnAll
    \/ WriteCsv

\* One run of main against an API of ApiSet.
Spec == Init /\ [][Next]_vars

\* One run of main against an API of LimiterApiSet.
SpecLimiter == InitLimiter /\ [][Next]_vars

\* ------------------------------------------------------------- flatten_hackathon alone
\* The values the nested fields of a raw record take.
LocationValues == {FullRecord.displayed_location, [icon |-> "globe"], EmptyDict}
PrizesValues == {FullRecord.prizes_counts, [cash |-> 2], [other |-> 1], EmptyDict}
ThemesValues == {FullRecord.themes, <<>>, <<[id |-> "1"]>>, NamelessThemeRecord.themes}
ThumbnailValues == {FullRecord.thumbnail_url, <<>>}

\* Raw records with every top-level key.
WholeRecords ==
    {[FullRecord EXCEPT !.displayed_location = l, !.prizes_counts = c, !.themes = t,
                        !.thumbnail_url = u] :
        l \in LocationValues, c \in PrizesValues, t \in ThemesValues, u \in ThumbnailValues}

\* The sets of top-level keys a raw record keeps: all but at most MaxMissing, or at
\* most MaxPresent.
KeySets ==
    {K \in SUBSET RawKeys :
        Cardinality(RawKeys \ K) <= MaxMissing \/ Cardinality(K) <= MaxPresent}

RawRecords == {Restrict(r, K) : r \in WholeRecords, K \in KeySets}

InitFlatten ==
    /\ api = MkApi(1, Payload("null", 0, 1, <<>>), NoPages)
    /\ InitProgram
    /\ fl_in \in RawRecords /\ fl_out = KeyError /\ fl_pc = "ready"

ApplyFlatten ==
    /\ fl_pc = "ready"
    /\ fl_out' = flatten_hackathon(fl_in)
    /\ fl_pc' = "done"
    /\ UNCHANGED <<api, mainvars, accvars, tasks, cur, corovars, iovars, fl_in>>

NextFlatten == ApplyFlatten

\* flatten_hackathon applied to one raw record of RawRecords.
SpecFlatten == InitFlatten /\ [][NextFlatten]_vars

\* ------------------------------------------------------------- claims: helpers
\* Is page q in failed_pages?
InFailed(q) == \E i \in DOMAIN failed_pages : failed_pages[i] = q

\* The coroutines that hold the limiter.
Holders == {p \in DOMAIN coro : coro[p] \in {"entered", "request", "sleep"}}

\* fetch_all_hackathons has returned to main.
Returned == pc \in {"report", "write", "done"}

\* The task list exists.
TasksCreated == pc \in {"await", "accumulate", "report", "write", "done"}
                    \/ (pc = "crashed" /\ cur >= 1)

\* The loop of line 105 has finished with the page before the one it stands at, and
\* data still holds what that page's coroutine returned.
PageDone == cur > 1 /\ pc \in {"await", "report", "write", "done"}

\* Page 1, then every page of 2..n outside failed_pages, each as often as it has records.
RECURSIVE ExpectedOrigin(_)
ExpectedOrigin(n) ==
    IF n = 0 THEN <<>>
    ELSE ExpectedOrigin(n - 1) \o
         (IF n = 1 \/ (n <= total_pages /\ ~InFailed(n))
          THEN [i \in 1..Len(api[n].hackathons) |-> n] ELSE <<>>)

\* The number of records of the pages of 2..n outside failed_pages.
RECURSIVE FetchedRecords(_)
FetchedRecords(n) ==
    IF n < 2 THEN 0
    ELSE FetchedRecords(n - 1) + (IF InFailed(n) THEN 0 ELSE Len(api[n].hackathons))

\* ------------------------------------------------------------- C1
\* C1: in every state all_hackathons holds the rows of page 1 first and then the rows
\* of the fetched pages in ascending page order (no row of page j precedes a row of
\* page i < j), and what fetch_all_hackathons returns is exactly page 1 followed by the
\* pages outside failed_pages in ascending order, whatever the outcomes and the number
\* of attempts of each page.
C1_PageOrder ==
    /\ Len(origin) = Len(all_hackathons)
    /\ \A i, j \in DOMAIN origin : i < j => origin[i] <= origin[j]
    /\ Returned => origin = ExpectedOrigin(Len(api))

\* A run that ended with rows of pages 1, 2 and 3 in the collection.
C1_Witness == pc = "done" /\ {origin[i] : i \in DOMAIN origin} = {1, 2, 3}

\* ------------------------------------------------------------- C2
\* C2: the fetches of pages 2..totalPages run concurrently: once the request of the
\* page the loop awaits is in flight, every later page has been started too (page N+2
\* is started before page N+1 is awaited to completion).
C2_StartedTogether ==
    \A p \in DOMAIN coro : \A q \in DOMAIN coro :
        (Running(p) /\ coro[p] = "request" /\ q > p) => coro[q] # "created"

\* ------------------------------------------------------------- C3
\* C3: at most max_concurrent = 10 page fetches hold the limiter at once, and the
\* semaphore's counter accounts for each of them.
C3_Limit ==
    /\ Cardinality(Holders) <= max_concurrent
    /\ sem_value >= 0
    /\ TasksCreated => sem_value + Cardinality(Holders) = max_concurrent

\* A request in flight in a run of more than max_concurrent pages.
C3_Witness ==
    \E p \in DOMAIN coro : coro[p] = "request" /\ Cardinality(DOMAIN coro) > max_concurrent

\* ------------------------------------------------------------- C4
\* C4: a page's coroutine sends at most max_retries requests; the loop index counts
\* every failed attempt of whatever class (it is never reset); a request answered 200
\* ends the attempts and returns the decoded body; a coroutine that returns without a
\* 200 has sent exactly max_retries requests and returns None.
C4_Budget ==
    \A p \in DOMAIN coro :
        /\ nreq[p] <= max_retries
        /\ coro[p] = "entered" => attempt[p] = nreq[p]
        /\ coro[p] \in {"request", "sleep"} => attempt[p] = nreq[p] - 1
        /\ last[p] = "ok200" => coro[p] = "returned" /\ result[p] = api[p]
        /\ (coro[p] = "returned" /\ last[p] # "ok200")
               => nreq[p] = max_retries /\ result[p] = NonePayload

\* A page answered 404 on its last attempt returns None after max_retries requests.
C4_Witness ==
    \E p \in DOMAIN coro :
        coro[p] = "returned" /\ last[p] = "http404" /\ nreq[p] = max_retries
            /\ result[p] = NonePayload

\* ------------------------------------------------------------- C5
\* C5: no run aborts inside the page loop, and a run that returns has requested every
\* page of 2..total_pages and holds the records of page 1 plus those of every page
\* outside failed_pages.
C5_Tolerant ==
    /\ ~(pc = "crashed" /\ cur >= 1)
    /\ Returned =>
        /\ requested = 2..total_pages
        /\ Len(all_hackathons) = Len(first_page.hackathons) + FetchedRecords(total_pages)

\* ------------------------------------------------------------- C6
\* C6 as stated: a page is in failed_pages if and only if its coroutine returned None.
C6_FailedIffAbsent == PageDone => (InFailed(tasks[cur - 1]) <=> data = NonePayload)

\* C6, amended: a page is in failed_pages if and only if its coroutine returned None or
\* a decoded body that is falsy or has no 'hackathons'; failed_pages is strictly
\* ascending (each page at most once), holds only pages the loop has finished with, and
\* a page whose body has 'hackathons' is never in it.
C6_FailedIffNoPageData ==
    /\ PageDone => (InFailed(tasks[cur - 1]) <=> data.kind \in {"None", "null", "nokey"})
    /\ \A i, j \in DOMAIN failed_pages : i < j => failed_pages[i] < failed_pages[j]
    /\ \A i \in DOMAIN failed_pages :
           \E k \in DOMAIN tasks : k < cur /\ tasks[k] = failed_pages[i]

\* A run that ended with two failed pages, the last for a body without 'hackathons'.
C6_Witness ==
    pc = "done" /\ Len(failed_pages) = 2 /\ data.kind = "nokey" /\ InFailed(tasks[cur - 1])

\* ------------------------------------------------------------- C7
\* C7: main sends at most one request for page 1; if that request raised or its body is
\* falsy, the run is over with a non-zero exit status, no page >= 2 was requested and
\* the CSV file was not written.
C7_DiscoveryFatal ==
    /\ discovery_requests <= 1
    /\ (pc \notin {"start", "discovery"} /\ ~Truthy(first_page)) =>
        /\ pc \in {"crashed", "exited"}
        /\ exit_status \notin {0, NoExit}
        /\ discovery_requests = 1
        /\ requested = {}
        /\ tasks = <<>>
        /\ ~csv_written

\* The discovery request returned a falsy body and the process has exited.
C7_Witness == pc = "exited" /\ first_page.kind = "null" /\ exit_status = 1

\* ------------------------------------------------------------- C8
\* C8: once the discovery request has returned data the run never aborts, and it ends
\* with the CSV file written with exactly the rows of all_hackathons and exit status 0.
C8_AlwaysWrites ==
    Truthy(first_page) =>
        /\ pc # "crashed"
        /\ pc = "done" => csv_written /\ csv_rows = all_hackathons /\ exit_status = 0

\* ------------------------------------------------------------- C9
\* C9: total_pages is ceil(total_count / per_page); the task list holds each page of
\* 2..total_pages exactly once and nothing else; fetch_page_with_retry requests only
\* pages of 2..total_pages, never page 1, and all of them by the time
\* fetch_all_hackathons returns; page 1 is requested once, by main.
C9_Pages ==
    /\ Truthy(first_page) =>
           total_pages = Ceil(first_page.meta.total_count, first_page.meta.per_page)
    /\ TasksCreated =>
        /\ \A i \in DOMAIN tasks : tasks[i] \in 2..total_pages
        /\ \A q \in 2..total_pages : Cardinality({i \in DOMAIN tasks : tasks[i] = q}) = 1
        /\ DOMAIN coro = 2..total_pages
    /\ requested \subseteq 2..total_pages
    /\ discovery_requests <= 1
    /\ Returned => requested = 2..total_pages

\* A finished run for total_count = 3, per_page = 2: two pages, page 2 requested.
C9_Witness ==
    /\ pc = "done"
    /\ first_page.meta.total_count = 3 /\ first_page.meta.per_page = 2
    /\ total_pages = 2 /\ requested = {2}

\* ------------------------------------------------------------- C10
\* C10: flatten_hackathon never raises and returns a record with the 19 keys of
\* FlatKeys, whatever fields and sub-fields the raw record lacks.
C10_Total == fl_pc = "done" => ~Raised(fl_out) /\ DOMAIN fl_out = FlatKeys


\* ------------------------------------------------------------- C11
\* Every request and every sleep ends, and the program takes its next step: no step
\* that is possible is put off for ever.
Fairness == WF_vars(Next)

\* One run of main against an API of ApiSet in which nothing stalls.
SpecFair == Init /\ [][Next]_vars /\ Fairness

\* The loop of line 105 has finished with page q: its rows are in all_hackathons
\* (SUCCESS) or it is in failed_pages (EXHAUSTED).
Terminal(q) == \E k \in DOMAIN tasks : k < cur /\ tasks[k] = q

\* The process has ended.
Ended == pc \in {"done", "crashed", "exited"}

\* C11: when nothing stalls, a run in which fetch_all_hackathons was called ends only
\* after every page of 2..total_pages has reached a terminal state, SUCCESS or
\* EXHAUSTED: no page is left pending or attempting.
C11_PagesTerminate ==
    (Ended /\ Truthy(first_page)) => \A q \in 2..total_pages : Terminal(q)


\* ------------------------------------------------------------- C12
\* The request of page p is answered in this step.
Answered(p) == coro[p] = "request" /\ coro'[p] # "request"

\* The step is the generic branch's: before the last attempt a sleep of 2 seconds times
\* the number of the attempt; on the last one a line on the error stream and None.
GenericBranch(p) ==
    IF nreq[p] < max_retries
    THEN coro'[p] = "sleep" /\ delay'[p] = 2 * nreq[p] /\ stderr' = stderr
    ELSE /\ coro'[p] = "returned" /\ result'[p] = NonePayload
         /\ stderr'.count = stderr.count + 1 /\ stderr'.line = <<"Error fetching page", p>>

\* The step is the 404 branch's: before the last attempt a sleep of 1 second times the
\* number of the attempt; on the last one None, and nothing on the error stream.
NotFoundBranch(p) ==
    /\ stderr' = stderr
    /\ IF nreq[p] < max_retries
       THEN coro'[p] = "sleep" /\ delay'[p] = 1 * nreq[p]
       ELSE coro'[p] = "returned" /\ result'[p] = NonePayload

\* The step raises nothing: the loop goes to its next attempt with no sleep and
\* nothing on the error stream.
NoBranch(p) ==
    /\ coro'[p] = "entered" /\ attempt'[p] = attempt[p] + 1
    /\ delay'[p] = 0 /\ stderr' = stderr

\* A sleep that ends is followed by the next attempt; a loop that runs out returns
\* None and prints nothing.
AfterBranch(p) ==
    /\ (coro[p] = "sleep" /\ coro'[p] # "sleep") =>
           coro'[p] = "entered" /\ attempt'[p] = nreq[p] /\ attempt'[p] < max_retries
    /\ (coro[p] = "entered" /\ coro'[p] = "returned") =>
           result'[p] = NonePayload /\ stderr' = stderr

====
